---- MODULE Spec2Model ----
(***************************************************************************)
(* The system-catalog loader of EmulationStation (es-app/src/SystemData.cpp)*)
(*                                                                         *)
(* Four specifications share the variables below:                          *)
(*   Spec          the static system list over several loadConfig calls,   *)
(*                 deleteSystems, getRandomSystem;                         *)
(*   SpecLoad      one loadConfig of a file with any <system> nodes;       *)
(*   SpecSystem    one SystemData object: its constructor (populateFolder, *)
(*                 parseGamelist, sort), getRandomGame, the destructor;    *)
(*   SpecGamelist  getGamelistPath / hasGamelist against the file system.  *)
(***************************************************************************)
EXTENDS Integers, Sequences, FiniteSets, TLC

VARIABLES
    sSystemVector,  \* SystemData::sSystemVector: sequence of system records
    destroyed,      \* ids of the SystemData objects whose destructor has run
    nextId,         \* next fresh object identity handed out by `new SystemData`
    homeCfg,        \* ~/.emulationstation/es_systems.cfg: "absent" | "example" | "user"
    etcCfg,         \* /etc/emulationstation/es_systems.cfg: "absent" | "user"
    homePath,       \* what getHomePath() returns
    sys,            \* SpecSystem: the SystemData object under study, or NoSys
    settings,       \* the Settings singleton (the booleans the loader reads)
    gfs,            \* SpecGamelist: which gamelist files / directories exist
    last            \* observable outcome of the last operation

vars == <<sSystemVector, destroyed, nextId, homeCfg, etcCfg, homePath,
          sys, settings, gfs, last>>

----------------------------------------------------------------------------
(* Bounds *)

\* total number of directory entries in a scanned ROM tree
MaxNodes == 3
\* std::rand() yields 0..RandMax (RAND_MAX scaled down)
RandMax == 5
\* <system> entries per configuration file
MaxSystems == 2
\* SystemData objects ever allocated in one behaviour
MaxId == 4

----------------------------------------------------------------------------
(* Sequences helpers *)

Range(s) == {s[i] : i \in DOMAIN s}

SeqsUpTo(S, n) == UNION {[1..k -> S] : k \in 0..n}

\* F applied to the value of v, which is computed once
Let(v, F(_)) == CHOOSE y \in {F(x) : x \in {v}} : TRUE

----------------------------------------------------------------------------
(* Characters and names.  A file name is a sequence of characters; an      *)
(* extension carries its leading dot, as boost's path::extension() does.   *)

Delims == {" ", ","}

ExtA == <<".", "a">>
ExtX == <<".", "x">>
StemG == <<"g">>
StemHidden == <<".", "g">>

\* position returned by std::string searches that find nothing
Npos == -1

\* std::string::find_first_not_of(delims, pos): 0-based position or Npos
FindFirstNotOf(str, pos) ==
    IF pos = Npos THEN Npos
    ELSE LET hits == {i \in pos..(Len(str) - 1) : str[i + 1] \notin Delims}
         IN IF hits = {} THEN Npos ELSE CHOOSE i \in hits : \A j \in hits : i <= j

\* std::string::find_first_of(delims, pos)
FindFirstOf(str, pos) ==
    IF pos = Npos THEN Npos
    ELSE LET hits == {i \in pos..(Len(str) - 1) : str[i + 1] \in Delims}
         IN IF hits = {} THEN Npos ELSE CHOOSE i \in hits : \A j \in hits : i <= j

\* std::string::substr(pos, n) with n = off - prevOff (to the end when off is npos)
Substr(str, prevOff, off) ==
    IF off = Npos THEN SubSeq(str, prevOff + 1, Len(str))
    ELSE SubSeq(str, prevOff + 1, off)

RECURSIVE ReadListLoop(_, _, _, _)
ReadListLoop(str, prevOff, off, ret) ==
    IF off # Npos \/ prevOff # Npos
    THEN LET ret2 == Append(ret, Substr(str, prevOff, off))
             prevOff2 == FindFirstNotOf(str, off)
             off2 == FindFirstOf(str, prevOff2)
         IN ReadListLoop(str, prevOff2, off2, ret2)
    ELSE ret

readList(str) ==
    LET prevOff == FindFirstNotOf(str, 0)
        off == FindFirstOf(str, prevOff)
    IN ReadListLoop(str, prevOff, off, <<>>)

----------------------------------------------------------------------------
(* FileData nodes and the directory walk                                   *)

FileData(type, name) == [type |-> type, name |-> name, children |-> <<>>]

addChild(folder, child) == [folder EXCEPT !.children = Append(@, child)]

\* isHidden: the file name starts with a dot
isHidden(fileName) == fileName # <<>> /\ fileName[1] = "."

RECURSIVE populateFolder(_, _, _, _)
RECURSIVE ScanEntries(_, _, _, _)

\* faulty variant: keeps a scanned sub-directory whether or not it has children
ScanEntryKeepEmpty(folder, e, exts, showHidden) ==
    IF e.stem = <<>> THEN folder
    ELSE IF e.ext \in Range(exts)
    THEN IF ~showHidden /\ isHidden(e.stem \o e.ext)
         THEN folder
         ELSE addChild(folder, FileData("GAME", e.stem \o e.ext))
    ELSE IF e.isDir
    THEN addChild(folder,
                  populateFolder(FileData("FOLDER", e.stem \o e.ext), e, exts, showHidden))
    ELSE folder

\* one iteration of the directory_iterator loop, for the entry e
ScanEntry(folder, e, exts, showHidden) ==
    IF e.stem = <<>> THEN folder
    ELSE IF e.ext \in Range(exts)
    THEN IF ~showHidden /\ isHidden(e.stem \o e.ext)
         THEN folder
         ELSE addChild(folder, FileData("GAME", e.stem \o e.ext))
    ELSE IF e.isDir
    THEN LET newFolder == populateFolder(FileData("FOLDER", e.stem \o e.ext),
                                         e, exts, showHidden)
         IN IF Len(newFolder.children) = 0
            THEN folder
            ELSE addChild(folder, newFolder)
    ELSE folder

ScanEntries(folder, entries, exts, showHidden) ==
    IF entries = <<>> THEN folder
    ELSE ScanEntries(ScanEntry(folder, Head(entries), exts, showHidden),
                     Tail(entries), exts, showHidden)

\* dir is what the file system holds at the folder's path
populateFolder(folder, dir, exts, showHidden) ==
    IF ~dir.isDir THEN folder
    ELSE IF dir.loop THEN folder
    ELSE ScanEntries(folder, dir.sub, exts, showHidden)

----------------------------------------------------------------------------
(* What a ROM directory can hold: trees of at most MaxNodes entries        *)

File(stem, ext) == [stem |-> stem, ext |-> ext, isDir |-> FALSE, loop |-> FALSE, sub |-> <<>>]

Dir(stem, ext, loop, sub) == [stem |-> stem, ext |-> ext, isDir |-> TRUE, loop |-> loop, sub |-> sub]

\* a game, a file of another type, a dot-file game, a file with an empty stem
FileEntries == {File(StemG, ExtA), File(StemG, ExtX), File(StemHidden, ExtA), File(<<>>, ExtA)}

RECURSIVE ListingsOfSize(_)
RECURSIVE EntriesOfSize(_)

\* directory entries that stand for exactly n nodes of the tree; the content
\* of a directory that is never scanned (a recursive symlink, a directory
\* named like a game) does not matter and is left empty
EntriesOfSize(n) ==
    IF n = 0 THEN {}
    ELSE (IF n = 1
          THEN FileEntries \cup {Dir(StemG, <<>>, TRUE, <<>>), Dir(StemG, ExtA, FALSE, <<>>)}
          ELSE {})
         \cup {Dir(StemG, <<>>, FALSE, sub) : sub \in ListingsOfSize(n - 1)}

\* directory listings (in directory_iterator order) of exactly n nodes
ListingsOfSize(n) ==
    IF n = 0 THEN {<<>>}
    ELSE UNION {{<<e>> \o rest : e \in EntriesOfSize(k), rest \in ListingsOfSize(n - k)}
                : k \in 1..n}

NotADirectory == File(StemG, <<>>)

\* what the file system can hold at a system's start path
StartDirs ==
    {NotADirectory}
    \cup {Dir(StemG, <<>>, TRUE, <<>>)}
    \cup UNION {{Dir(StemG, <<>>, FALSE, sub) : sub \in ListingsOfSize(n)} : n \in 0..MaxNodes}

----------------------------------------------------------------------------
(* FileData::sort, parseGamelist, getFilesRecursive: the callees of the    *)
(* constructor and of getRandomGame                                        *)

CharOrder == <<" ", ",", ".", "a", "g", "x">>

CharRank(c) == CHOOSE i \in DOMAIN CharOrder : CharOrder[i] = c

RECURSIVE NameLess(_, _)
NameLess(a, b) ==
    IF b = <<>> THEN FALSE
    ELSE IF a = <<>> THEN TRUE
    ELSE IF Head(a) = Head(b) THEN NameLess(Tail(a), Tail(b))
    ELSE CharRank(Head(a)) < CharRank(Head(b))

RECURSIVE InsertSorted(_, _)
InsertSorted(sorted, n) ==
    IF sorted = <<>> THEN <<n>>
    ELSE IF NameLess(n.name, Head(sorted).name) THEN <<n>> \o sorted
    ELSE <<Head(sorted)>> \o InsertSorted(Tail(sorted), n)

RECURSIVE sort(_)
RECURSIVE SortChildren(_, _)
SortChildren(nodes, acc) ==
    IF nodes = <<>> THEN acc
    ELSE SortChildren(Tail(nodes), InsertSorted(acc, sort(Head(nodes))))

\* stable sort of the children by name, applied to every folder below
sort(node) == [node EXCEPT !.children = SortChildren(@, <<>>)]

\* the names the file system holds directly under dir
DiskNames(dir) == IF dir.isDir THEN {e.stem \o e.ext : e \in Range(dir.sub)} ELSE {}

\* gamelist entries are merged into the tree: an entry whose file is missing
\* is skipped unless the gamelist is trusted, an entry already in the tree is
\* kept as is, any other entry is added as a game
RECURSIVE parseGamelist(_, _, _, _)
parseGamelist(root, dir, gl, trustGamelist) ==
    IF gl = <<>> \/ ~dir.isDir THEN root
    ELSE LET n == Head(gl)
             skip == (~trustGamelist /\ n \notin DiskNames(dir))
                     \/ (\E c \in Range(root.children) : c.name = n)
         IN parseGamelist(IF skip THEN root ELSE addChild(root, FileData("GAME", n)),
                          dir, Tail(gl), trustGamelist)

\* FileFilterIndex::showFile: the filter shows the files with the selected name
showFile(idx, file) == file.name = idx.key

RECURSIVE getFilesRecursive(_, _, _, _)
RECURSIVE FilesOfChildren(_, _, _, _)
FilesOfChildren(children, typeMask, displayedOnly, idx) ==
    IF children = <<>> THEN <<>>
    ELSE LET c == Head(children)
             own == IF c.type \in typeMask
                       /\ (~displayedOnly \/ ~idx.isFiltered \/ showFile(idx, c))
                    THEN <<c>> ELSE <<>>
             below == IF Len(c.children) > 0
                      THEN getFilesRecursive(c, typeMask, displayedOnly, idx)
                      ELSE <<>>
         IN own \o below \o FilesOfChildren(Tail(children), typeMask, displayedOnly, idx)

getFilesRecursive(node, typeMask, displayedOnly, idx) ==
    FilesOfChildren(node.children, typeMask, displayedOnly, idx)

----------------------------------------------------------------------------
(* SystemData: construction and the per-system queries                     *)

FileFilterIndex == [isFiltered |-> FALSE, key |-> <<>>]

\* faulty variant: takes every system for a game system
setIsGameSystemStatusAlways(name) == TRUE

setIsGameSystemStatus(name) == name # "retropie"

\* the constructor: env is the SystemEnvironmentData, dir and gl are what
\* the file system holds at the start path and in the gamelist file
SystemData(id, name, env, dir, gl, set, CollectionSystem) ==
    LET root0 == FileData("FOLDER", env.mStartPath)
        root1 == IF ~set.ParseGamelistOnly
                 THEN populateFolder(root0, dir, env.mSearchExtensions, set.ShowHiddenFiles)
                 ELSE root0
        root2 == IF ~set.IgnoreGamelist
                 THEN parseGamelist(root1, dir, gl, set.ParseGamelistOnly)
                 ELSE root1
    IN [id |-> id,
        mName |-> name,
        mEnvData |-> env,
        mIsCollectionSystem |-> CollectionSystem,
        mFilterIndex |-> FileFilterIndex,
        mRootFolder |-> IF ~CollectionSystem THEN sort(root2) ELSE FileData("FOLDER", <<name>>),
        mIsGameSystem |-> setIsGameSystemStatus(name)]

\* std::round of a non-negative quotient num / den
Round(num, den) == (2 * num + den) \div (2 * den)

\* faulty variant: scales by total instead of total - 1
RandomTargetOffByOne(r, total) == Round(r * total, RandMax)

\* round(((double)rand / (double)RAND_MAX) * (total - 1)), for total >= 1
RandomTarget(r, total) == Round(r * (total - 1), RandMax)

\* std::vector::at: the element, or the out_of_range exception
At(list, target) ==
    IF target \in 0..(Len(list) - 1)
    THEN [threw |-> FALSE, value |-> <<list[target + 1]>>]
    ELSE [threw |-> TRUE, value |-> <<>>]

\* result is <<>> for NULL and <<file>> for a returned FileData
getRandomGame(s, r) ==
    LET list == getFilesRecursive(s.mRootFolder, {"GAME"}, TRUE, s.mFilterIndex)
        total == Len(list)
        target == IF total = 0 THEN 0 ELSE RandomTarget(r, total)
    IN IF total = 0
       THEN [op |-> "getRandomGame", list |-> list, target |-> target,
             threw |-> FALSE, result |-> <<>>]
       ELSE [op |-> "getRandomGame", list |-> list, target |-> target,
             threw |-> At(list, target).threw, result |-> At(list, target).value]

----------------------------------------------------------------------------
(* Gamelist paths.  A path is a sequence of components; the file system is *)
(* the set of the paths that exist.                                        *)

exists(fs, path) == path \in fs

RootGamelist(s) == s.mRootFolder.name \o <<"gamelist.xml">>

HomeGamelistDir(home, s) == home \o <<".emulationstation", "gamelists", s.mName>>

HomeGamelist(home, s) == HomeGamelistDir(home, s) \o <<"gamelist.xml">>

EtcGamelist(s) == <<"/etc", "emulationstation", "gamelists", s.mName, "gamelist.xml">>

\* fs::create_directories
create_directories(fs, path) == fs \cup {path}

\* faulty variant: tries the home path before the root folder
getGamelistPathHomeFirst(s, forWrite, home, fs) ==
    LET fs2 == IF forWrite THEN create_directories(fs, HomeGamelistDir(home, s)) ELSE fs
    IN IF forWrite \/ exists(fs2, HomeGamelist(home, s))
       THEN [path |-> HomeGamelist(home, s), fs |-> fs2]
       ELSE IF exists(fs2, RootGamelist(s))
       THEN [path |-> RootGamelist(s), fs |-> fs2]
       ELSE [path |-> EtcGamelist(s), fs |-> fs2]

\* returns the path and the file system the call leaves behind
getGamelistPath(s, forWrite, home, fs) ==
    IF exists(fs, RootGamelist(s))
    THEN [path |-> RootGamelist(s), fs |-> fs]
    ELSE LET fs2 == IF forWrite
                    THEN create_directories(fs, HomeGamelistDir(home, s))
                    ELSE fs
         IN IF forWrite \/ exists(fs2, HomeGamelist(home, s))
            THEN [path |-> HomeGamelist(home, s), fs |-> fs2]
            ELSE [path |-> EtcGamelist(s), fs |-> fs2]

hasGamelist(s, home, fs) == exists(fs, getGamelistPath(s, FALSE, home, fs).path)

\* updateGamelist saves the gamelist at getGamelistPath(true)
updateGamelist(s, home, fs) ==
    LET r == getGamelistPath(s, TRUE, home, fs) IN r.fs \cup {r.path}

\* ~SystemData: the file system the destructor leaves behind
DestroySystem(s, set, home, fs) ==
    IF ~set.IgnoreGamelist /\ set.SaveGamelistsOnExit /\ ~s.mIsCollectionSystem
    THEN updateGamelist(s, home, fs)
    ELSE fs

----------------------------------------------------------------------------
(* The system list: loadConfig, deleteSystems, getRandomSystem             *)

HomeConfig(home) == home \o <<".emulationstation", "es_systems.cfg">>

EtcConfig == <<"/etc", "emulationstation", "es_systems.cfg">>

\* faulty variant: returns the home path only when the file is there
getConfigPathIgnoreForWrite(forWrite, home, homeExists) ==
    IF homeExists THEN HomeConfig(home) ELSE EtcConfig

getConfigPath(forWrite, home, homeExists) ==
    IF forWrite \/ homeExists THEN HomeConfig(home) ELSE EtcConfig

\* faulty variant: destroys the systems and leaves them in the vector
deleteSystemsNoClear(vec, dest, set, home, fs) ==
    [vec |-> vec, destroyed |-> dest \cup {vec[i].id : i \in DOMAIN vec}, fs |-> fs]

RECURSIVE DestroyAll(_, _, _, _)
DestroyAll(vec, set, home, fs) ==
    IF vec = <<>> THEN fs
    ELSE DestroyAll(Tail(vec), set, home, DestroySystem(Head(vec), set, home, fs))

\* every system of the vector is deleted, then the vector is cleared
deleteSystems(vec, dest, set, home, fs) ==
    [vec |-> <<>>,
     destroyed |-> dest \cup {vec[i].id : i \in DOMAIN vec},
     fs |-> DestroyAll(vec, set, home, fs)]

\* faulty variant: does not test the command
IsMissingFieldNoCommand(name, path, extensions, cmd) ==
    name = "" \/ path = <<>> \/ extensions = <<>>

\* name.empty() || path.empty() || extensions.empty() || cmd.empty()
IsMissingField(name, path, extensions, cmd) ==
    name = "" \/ path = <<>> \/ extensions = <<>> \/ cmd = ""

\* a leading ~ is replaced by the home path
ExpandHome(path, home) ==
    IF path # <<>> /\ path[1] = "~" THEN home \o Tail(path) ELSE path

\* the tail of the loop body, from the check of the new system's root folder
AddOrDelete(st, newSys, set, home) ==
    LET n == Len(newSys.mRootFolder.children)
    IN IF n = 0
       THEN [st EXCEPT !.nextId = @ + 1,
                       !.destroyed = @ \cup {newSys.id},
                       !.fs = DestroySystem(newSys, set, home, @),
                       !.made = Append(@, [id |-> newSys.id, children |-> n])]
       ELSE [st EXCEPT !.nextId = @ + 1,
                       !.vec = Append(@, newSys),
                       !.made = Append(@, [id |-> newSys.id, children |-> n])]

\* one iteration of the loop over the <system> nodes; in is the node together
\* with what the file system holds for it, st the loader's state so far
LoadSystemBody(in, st, set, home) ==
    LET name == in.name
        extensions == readList(in.extension)
        cmd == in.command
    IN IF IsMissingField(name, in.path, extensions, cmd)
       THEN [st EXCEPT !.made = Append(@, [id |-> 0, children |-> 0])]
       ELSE LET path == ExpandHome(in.path, home)
                envData == [mStartPath |-> path,
                            mSearchExtensions |-> extensions,
                            mLaunchCommand |-> cmd]
            IN Let(SystemData(st.nextId, name, envData, in.dir, in.gl, set, FALSE),
                   LAMBDA newSys : AddOrDelete(st, newSys, set, home))

LoadSystem(in, st, set, home) == Let(st, LAMBDA s : LoadSystemBody(in, s, set, home))

RECURSIVE LoadSystems(_, _, _, _)
LoadSystems(ins, st, set, home) ==
    IF ins = <<>> THEN st
    ELSE LoadSystems(Tail(ins), LoadSystem(Head(ins), st, set, home), set, home)

\* loadConfig: cfgHome says whether the home config exists, file is what the
\* file at the config path holds ("absent" when there is none); collections
\* says whether CollectionSystemManager::loadCollectionSystems was called
loadConfig(vec, dest, id, set, home, fs, cfgHome, file, ins) ==
    Let(deleteSystems(vec, dest, set, home, fs),
        LAMBDA del :
            LET st0 == [vec |-> del.vec, destroyed |-> del.destroyed, nextId |-> id,
                        fs |-> del.fs, made |-> <<>>]
            IN IF file = "absent"
               THEN [st |-> st0, ret |-> FALSE, collections |-> FALSE,
                     example |-> <<getConfigPath(TRUE, home, cfgHome)>>]
               ELSE IF file = "unparsable"
               THEN [st |-> st0, ret |-> FALSE, collections |-> FALSE, example |-> <<>>]
               ELSE IF file = "noSystemList"
               THEN [st |-> st0, ret |-> FALSE, collections |-> FALSE, example |-> <<>>]
               ELSE [st |-> LoadSystems(ins, st0, set, home), ret |-> TRUE,
                     collections |-> TRUE, example |-> <<>>])

RECURSIVE PickGameSystem(_, _)
\* the second loop of getRandomSystem: <<s>> for a returned system, <<>> when
\* the loop ends without a return
PickGameSystem(vec, target) ==
    IF vec = <<>> THEN <<>>
    ELSE IF Head(vec).mIsGameSystem
    THEN IF target > 0
         THEN PickGameSystem(Tail(vec), target - 1)
         ELSE <<Head(vec)>>
    ELSE PickGameSystem(Tail(vec), target)

GameSystemCount(vec) == Cardinality({i \in DOMAIN vec : vec[i].mIsGameSystem})

----------------------------------------------------------------------------
(* SpecSystem: one SystemData object                                       *)

SettingsStates ==
    [ParseGamelistOnly : BOOLEAN, IgnoreGamelist : BOOLEAN,
     ShowHiddenFiles : BOOLEAN, SaveGamelistsOnExit : BOOLEAN]

\* the paths a gamelist can name
GamelistFiles == {<<>>, <<StemG \o ExtA>>, <<StemG \o ExtX>>}

EnvOne == [mStartPath |-> <<"r">>, mSearchExtensions |-> <<ExtA>>, mLaunchCommand |-> "run"]

NoLast == [op |-> "none"]

InitLists ==
    /\ sSystemVector = <<>>
    /\ destroyed = {}
    /\ nextId = 1
    /\ homeCfg = "absent"
    /\ etcCfg = "absent"
    /\ homePath = <<"h">>

\* the shape of a system whose root folder has the given path
Shape(name, startPath) == [mName |-> name, mRootFolder |-> FileData("FOLDER", startPath)]

InitSystem ==
    /\ InitLists
    /\ gfs \in SUBSET {RootGamelist(Shape("nes", EnvOne.mStartPath))}
    /\ sys = <<>>
    /\ settings \in SettingsStates
    /\ last = NoLast

\* new SystemData(name, fullName, envData, themeFolder)
Construct ==
    /\ sys = <<>>
    /\ \E dir \in StartDirs, gl \in GamelistFiles :
          /\ gl # <<>> => hasGamelist(Shape("nes", EnvOne.mStartPath), homePath, gfs)
          /\ sys' = <<SystemData(1, "nes", EnvOne, dir, gl, settings, FALSE)>>
          /\ last' = [op |-> "construct", dir |-> dir,
                       scanned |-> populateFolder(FileData("FOLDER", EnvOne.mStartPath), dir,
                                                  EnvOne.mSearchExtensions,
                                                  settings.ShowHiddenFiles)]
    /\ UNCHANGED <<sSystemVector, destroyed, nextId, homeCfg, etcCfg, homePath, settings, gfs>>

\* the UI selects a filter on the system's FileFilterIndex
SetFilter ==
    /\ sys # <<>>
    /\ \E f \in {[isFiltered |-> FALSE, key |-> <<>>],
                 [isFiltered |-> TRUE, key |-> StemG \o ExtA],
                 [isFiltered |-> TRUE, key |-> StemG \o ExtX]} :
          sys' = <<[sys[1] EXCEPT !.mFilterIndex = f]>>
    /\ last' = [op |-> "setFilter"]
    /\ UNCHANGED <<sSystemVector, destroyed, nextId, homeCfg, etcCfg, homePath, settings, gfs>>

GetRandomGame ==
    /\ sys # <<>>
    /\ \E r \in 0..RandMax : last' = getRandomGame(sys[1], r)
    /\ UNCHANGED <<sSystemVector, destroyed, nextId, homeCfg, etcCfg, homePath,
                   sys, settings, gfs>>

\* delete of the object
Destroy ==
    /\ sys # <<>>
    /\ sys' = <<>>
    /\ gfs' = DestroySystem(sys[1], settings, homePath, gfs)
    /\ last' = [op |-> "destroy"]
    /\ UNCHANGED <<sSystemVector, destroyed, nextId, homeCfg, etcCfg, homePath, settings>>

NextSystem == Construct \/ SetFilter \/ GetRandomGame \/ Destroy

SpecSystem == InitSystem /\ [][NextSystem]_vars

----------------------------------------------------------------------------
(* Properties of SpecSystem                                                *)

RECURSIVE NoEmptyFolderBelow(_)
NoEmptyFolderBelow(node) ==
    \A i \in DOMAIN node.children :
        LET c == node.children[i]
        IN c.type = "FOLDER" => Len(c.children) > 0 /\ NoEmptyFolderBelow(c)

\* a directory entry the walk descends into
IsScannedDir(e, exts) == e.stem # <<>> /\ e.ext \notin Range(exts) /\ e.isDir

\* a directory entry that holds a game at some depth
RECURSIVE HoldsGame(_, _, _)
HoldsGame(e, exts, showHidden) ==
    /\ e.isDir
    /\ ~e.loop
    /\ \E i \in DOMAIN e.sub :
          LET c == e.sub[i]
          IN \/ /\ c.stem # <<>>
                /\ c.ext \in Range(exts)
                /\ (showHidden \/ ~isHidden(c.stem \o c.ext))
             \/ /\ IsScannedDir(c, exts)
                /\ HoldsGame(c, exts, showHidden)

FolderCount(node) == Cardinality({i \in DOMAIN node.children : node.children[i].type = "FOLDER"})

\* C7: in the tree populateFolder builds, every FOLDER below the scanned root
\* has at least one child, and the root holds exactly one FOLDER for each
\* sub-directory that holds a game at some depth: the others are not added
C7_NoEmptyFolders ==
    last.op = "construct" =>
        /\ NoEmptyFolderBelow(last.scanned)
        /\ (last.dir.isDir /\ ~last.dir.loop) =>
              FolderCount(last.scanned) =
                  Cardinality({i \in DOMAIN last.dir.sub :
                                  /\ IsScannedDir(last.dir.sub[i], EnvOne.mSearchExtensions)
                                  /\ HoldsGame(last.dir.sub[i], EnvOne.mSearchExtensions,
                                               settings.ShowHiddenFiles)})

\* a scan that dropped a sub-directory without games and kept one with a game
C7_Witness ==
    /\ last.op = "construct"
    /\ last.dir.isDir
    /\ \E i \in DOMAIN last.dir.sub :
          /\ IsScannedDir(last.dir.sub[i], EnvOne.mSearchExtensions)
          /\ ~HoldsGame(last.dir.sub[i], EnvOne.mSearchExtensions, settings.ShowHiddenFiles)
    /\ FolderCount(last.scanned) = 1

DisplayedGames == getFilesRecursive(sys[1].mRootFolder, {"GAME"}, TRUE, sys[1].mFilterIndex)

\* C4: getRandomGame returns NULL exactly when the list of displayed games is
\* empty; otherwise the index is in 0..total-1, at() does not throw and the
\* returned file is the element of the list at that index
C4_RandomGame ==
    last.op = "getRandomGame" =>
        /\ (last.result = <<>>) <=> (DisplayedGames = <<>>)
        /\ ~last.threw
        /\ DisplayedGames # <<>> =>
              /\ last.target \in 0..(Len(DisplayedGames) - 1)
              /\ last.result = <<DisplayedGames[last.target + 1]>>

\* the largest draw picked the last of several displayed games
C4_Witness ==
    /\ last.op = "getRandomGame"
    /\ Len(DisplayedGames) >= 2
    /\ last.target = Len(DisplayedGames) - 1
    /\ last.result # <<>>

----------------------------------------------------------------------------
(* Spec: the system list                                                   *)

SystemNes == [name |-> "nes", path |-> <<"r">>, extension |-> ExtA, command |-> "run"]

SystemRetropie ==
    [name |-> "retropie", path |-> <<"~">>,
     extension |-> <<" ">> \o ExtA \o <<",">> \o ExtX, command |-> "run"]

\* the <system> node writeExampleConfig writes
SystemExample ==
    [name |-> "nes", path |-> <<"~", "r">>,
     extension |-> ExtA \o <<" ">> \o ExtX, command |-> "run"]

\* <system> nodes that lack one of the four fields
DefectiveSystems ==
    {[SystemNes EXCEPT !.name = ""],
     [SystemNes EXCEPT !.path = <<>>],
     [SystemNes EXCEPT !.extension = <<" ", ",">>],
     [SystemNes EXCEPT !.command = ""]}

\* a ROM directory with a game and an empty sub-directory, listed in the gamelist
DirWithGame ==
    [dir |-> Dir(StemG, <<>>, FALSE, <<File(StemG, ExtA), Dir(StemG, <<>>, FALSE, <<>>)>>),
     gl |-> <<StemG \o ExtA>>]

\* a ROM directory without games
DirWithoutGame ==
    [dir |-> Dir(StemG, <<>>, FALSE, <<File(StemHidden, ExtA)>>), gl |-> <<>>]

NoDir == [dir |-> NotADirectory, gl |-> <<>>]

WithDisk(e, d) ==
    [name |-> e.name, path |-> e.path, extension |-> e.extension, command |-> e.command,
     dir |-> d.dir, gl |-> d.gl]

\* the empty path is no directory; a gamelist has content only if it exists
DiskCases(e, home, fs) ==
    IF ExpandHome(e.path, home) = <<>> THEN {NoDir}
    ELSE {d \in {DirWithGame, DirWithoutGame} :
            d.gl # <<>> => hasGamelist(Shape(e.name, ExpandHome(e.path, home)), home, fs)}

\* a <system> node together with what the file system holds for it
SystemInputs(entries, home, fs) ==
    UNION {{WithDisk(e, d) : d \in DiskCases(e, home, fs)} : e \in entries}

\* the gamelist.xml files in the ROM directories
RootGamelists(home) ==
    {p \o <<"gamelist.xml">> : p \in {<<"r">>, home, home \o <<"r">>}}

DefaultSettings ==
    [ParseGamelistOnly |-> FALSE, IgnoreGamelist |-> FALSE,
     ShowHiddenFiles |-> FALSE, SaveGamelistsOnExit |-> TRUE]

Init ==
    /\ sSystemVector = <<>>
    /\ destroyed = {}
    /\ nextId = 1
    /\ homeCfg \in {"absent", "user"}
    /\ etcCfg \in {"absent", "user"}
    /\ homePath = <<"h">>
    /\ sys = <<>>
    /\ settings = DefaultSettings
    /\ gfs = RootGamelists(homePath)
    /\ last = NoLast

\* what the file at the path holds
FileAt(path) == IF path = HomeConfig(homePath) THEN homeCfg ELSE etcCfg

\* the documents a configuration file of the given kind can hold, a user's
\* file being made of the given <system> nodes
Documents(kind, systems) ==
    IF kind = "absent" THEN {[file |-> "absent", ins |-> <<>>]}
    ELSE IF kind = "example"
    THEN {[file |-> "ok", ins |-> <<i>>] : i \in SystemInputs({SystemExample}, homePath, gfs)}
    ELSE {[file |-> "unparsable", ins |-> <<>>], [file |-> "noSystemList", ins |-> <<>>]}
         \cup {[file |-> "ok", ins |-> ins] :
                 ins \in SeqsUpTo(SystemInputs(systems, homePath, gfs), MaxSystems)}

LoadConfigOf(systems) ==
    \E doc \in Documents(FileAt(getConfigPath(FALSE, homePath, homeCfg # "absent")), systems),
       writeOk \in BOOLEAN :
        /\ nextId + Len(doc.ins) <= MaxId + 1
        /\ doc.file # "absent" => writeOk
        /\ \E r \in {loadConfig(sSystemVector, destroyed, nextId, settings, homePath, gfs,
                                homeCfg # "absent", doc.file, doc.ins)} :
            /\ sSystemVector' = r.st.vec
            /\ destroyed' = r.st.destroyed
            /\ nextId' = r.st.nextId
            /\ gfs' = r.st.fs
            /\ homeCfg' = IF writeOk /\ r.example = <<HomeConfig(homePath)>>
                          THEN "example" ELSE homeCfg
            /\ etcCfg' = IF writeOk /\ r.example = <<EtcConfig>>
                         THEN "example" ELSE etcCfg
            /\ last' = [op |-> "loadConfig", ret |-> r.ret, file |-> doc.file,
                        ins |-> doc.ins, made |-> r.st.made, example |-> r.example,
                        collections |-> r.collections, firstId |-> nextId,
                        before |-> {sSystemVector[i].id : i \in DOMAIN sSystemVector}]
        /\ UNCHANGED <<homePath, sys, settings>>

LoadConfig == LoadConfigOf({SystemNes, SystemRetropie, [SystemNes EXCEPT !.command = ""]})

DeleteSystems ==
    /\ sSystemVector # <<>>
    /\ \E del \in {deleteSystems(sSystemVector, destroyed, settings, homePath, gfs)} :
          /\ sSystemVector' = del.vec
          /\ destroyed' = del.destroyed
          /\ gfs' = del.fs
    /\ last' = [op |-> "deleteSystems"]
    /\ UNCHANGED <<nextId, homeCfg, etcCfg, homePath, sys, settings>>

\* total == 0 makes (total - 1) wrap and the function end without a return
\* statement: the caller then gets any pointer
GetRandomSystem ==
    /\ \E r \in 0..RandMax :
        LET total == GameSystemCount(sSystemVector)
            target == IF total = 0 THEN 0 ELSE RandomTarget(r, total)
            picked == IF total = 0 THEN <<>> ELSE PickGameSystem(sSystemVector, target)
        IN IF picked # <<>>
           THEN last' = [op |-> "getRandomSystem", total |-> total, target |-> target,
                         ub |-> FALSE, result |-> picked]
           ELSE \E any \in {<<>>} \cup {<<s>> : s \in Range(sSystemVector)} :
                    last' = [op |-> "getRandomSystem", total |-> total, target |-> target,
                             ub |-> TRUE, result |-> any]
    /\ UNCHANGED <<sSystemVector, destroyed, nextId, homeCfg, etcCfg, homePath,
                   sys, settings, gfs>>

\* the user writes or removes a configuration file
EditConfig ==
    /\ \E h \in {"absent", "user"}, e \in {"absent", "user"} :
          /\ homeCfg' = h
          /\ etcCfg' = e
    /\ <<homeCfg', etcCfg'>> # <<homeCfg, etcCfg>>
    /\ last' = [op |-> "editConfig"]
    /\ UNCHANGED <<sSystemVector, destroyed, nextId, homePath, sys, settings, gfs>>

Next == LoadConfig \/ DeleteSystems \/ GetRandomSystem \/ EditConfig

Spec == Init /\ [][Next]_vars

----------------------------------------------------------------------------
(* SpecLoad: one loadConfig of a configuration file with any <system> nodes *)

InitLoad ==
    /\ sSystemVector = <<>>
    /\ destroyed = {}
    /\ nextId = 1
    /\ homeCfg \in {"absent", "user"}
    /\ etcCfg \in {"absent", "user"}
    /\ homePath \in {<<>>, <<"h">>}
    /\ sys = <<>>
    /\ settings \in {s \in SettingsStates : ~s.ShowHiddenFiles /\ s.SaveGamelistsOnExit}
    /\ gfs = RootGamelists(homePath)
    /\ last = NoLast

FirstLoadConfig ==
    /\ last = NoLast
    /\ LoadConfigOf({SystemNes, SystemRetropie} \cup DefectiveSystems)

NextLoad == FirstLoadConfig \/ GetRandomSystem \/ DeleteSystems

SpecLoad == InitLoad /\ [][NextLoad]_vars

----------------------------------------------------------------------------
(* SpecGamelist: getGamelistPath and hasGamelist of one system             *)

GamelistPaths(s) ==
    {RootGamelist(s), HomeGamelistDir(homePath, s), HomeGamelist(homePath, s), EtcGamelist(s)}

\* a file is in a directory that exists
Consistent(s, fs) == HomeGamelist(homePath, s) \in fs => HomeGamelistDir(homePath, s) \in fs

InitGamelist ==
    /\ InitLists
    /\ settings = DefaultSettings
    /\ \E name \in {"nes", "retropie"} :
          sys = <<SystemData(1, name, EnvOne, DirWithGame.dir, <<>>, settings, FALSE)>>
    /\ gfs \in {fs \in SUBSET GamelistPaths(sys[1]) : Consistent(sys[1], fs)}
    /\ last = NoLast

GetGamelistPath ==
    /\ sys # <<>>
    /\ \E forWrite \in BOOLEAN :
        \E r \in {getGamelistPath(sys[1], forWrite, homePath, gfs)} :
            /\ gfs' = r.fs
            /\ last' = [op |-> "getGamelistPath", forWrite |-> forWrite, path |-> r.path,
                        before |-> gfs]
    /\ UNCHANGED <<sSystemVector, destroyed, nextId, homeCfg, etcCfg, homePath, sys, settings>>

HasGamelist ==
    /\ sys # <<>>
    /\ last' = [op |-> "hasGamelist", result |-> hasGamelist(sys[1], homePath, gfs)]
    /\ UNCHANGED <<sSystemVector, destroyed, nextId, homeCfg, etcCfg, homePath,
                   sys, settings, gfs>>

\* a gamelist file is written or removed behind the program's back
ChangeFiles ==
    /\ sys # <<>>
    /\ \E p \in GamelistPaths(sys[1]) \ {HomeGamelistDir(homePath, sys[1])} :
          gfs' = IF p \in gfs THEN gfs \ {p}
                 ELSE IF p = HomeGamelist(homePath, sys[1])
                 THEN gfs \cup {p, HomeGamelistDir(homePath, sys[1])}
                 ELSE gfs \cup {p}
    /\ last' = [op |-> "changeFiles"]
    /\ UNCHANGED <<sSystemVector, destroyed, nextId, homeCfg, etcCfg, homePath, sys, settings>>

NextGamelist == GetGamelistPath \/ HasGamelist \/ ChangeFiles \/ Destroy

SpecGamelist == InitGamelist /\ [][NextGamelist]_vars

----------------------------------------------------------------------------
(* Properties of the system list                                           *)

HasAllFields(in) ==
    /\ in.name # ""
    /\ in.path # <<>>
    /\ \E i \in DOMAIN in.extension : in.extension[i] \notin Delims
    /\ in.command # ""

InList(id) == \E j \in DOMAIN sSystemVector : sSystemVector[j].id = id

\* C1: after loadConfig returned true, every system of the list has a name, a
\* path, an extension list and a command, none of them empty, and a root folder
\* with a child; a <system> node that lacks one of the four fields, or whose
\* root folder has no child after construction, is not in the list, and every
\* other node is
C1_ListedSystemsAreComplete ==
    (last.op = "loadConfig" /\ last.ret) =>
        /\ \A j \in DOMAIN sSystemVector :
              LET s == sSystemVector[j]
              IN /\ s.mName # ""
                 /\ s.mEnvData.mStartPath # <<>>
                 /\ s.mEnvData.mSearchExtensions # <<>>
                 /\ s.mEnvData.mLaunchCommand # ""
                 /\ Len(s.mRootFolder.children) >= 1
        /\ \A i \in DOMAIN last.ins :
              (~HasAllFields(last.ins[i]) \/ last.made[i].children = 0)
                  <=> ~InList(last.made[i].id)
        /\ Len(sSystemVector) =
              Cardinality({i \in DOMAIN last.ins :
                              HasAllFields(last.ins[i]) /\ last.made[i].children > 0})

\* a load that listed one system and rejected a node lacking a field
C1_Witness ==
    /\ last.op = "loadConfig"
    /\ last.ret
    /\ Len(sSystemVector) = 1
    /\ \E i \in DOMAIN last.ins : ~HasAllFields(last.ins[i])

\* C2: loadConfig returns false exactly when the config file does not exist,
\* cannot be parsed or has no <systemList>; then the list is empty and the
\* collection systems are not loaded; the example config is written, to the
\* home path, exactly when the file does not exist
C2_FailureCases ==
    last.op = "loadConfig" =>
        /\ ~last.ret <=> last.file \in {"absent", "unparsable", "noSystemList"}
        /\ ~last.ret => sSystemVector = <<>> /\ ~last.collections
        /\ last.example # <<>> <=> last.file = "absent"
        /\ last.example # <<>> => last.example = <<HomeConfig(homePath)>>

\* no config file was found and the example config was written
C2_Witness ==
    /\ last.op = "loadConfig"
    /\ last.file = "absent"
    /\ ~last.ret
    /\ last.before # {}
    /\ homeCfg = "example"

IsGame(s) == s.mName # "retropie"

\* C3: when the list holds a game system, getRandomSystem returns a game system
\* of the list, its target being in 0..total-1 for the number total of game
\* systems
C3_RandomSystemIsGameSystem ==
    (last.op = "getRandomSystem" /\ \E j \in DOMAIN sSystemVector : IsGame(sSystemVector[j])) =>
        /\ ~last.ub
        /\ last.target \in
              0..(Cardinality({j \in DOMAIN sSystemVector : IsGame(sSystemVector[j])}) - 1)
        /\ \E j \in DOMAIN sSystemVector :
              last.result = <<sSystemVector[j]>> /\ IsGame(sSystemVector[j])

\* the list starts with the retropie system and a later game system is returned
C3_Witness ==
    /\ last.op = "getRandomSystem"
    /\ Len(sSystemVector) >= 2
    /\ ~IsGame(sSystemVector[1])
    /\ last.result = <<sSystemVector[2]>>

----------------------------------------------------------------------------
(* Properties of getGamelistPath                                           *)

\* C5: getGamelistPath returns the root folder's gamelist when it exists, else
\* the home gamelist when forWrite is set or that file exists, else the /etc
\* gamelist; with forWrite it never returns the /etc path; the only change to
\* the file system is the home gamelist directory, created only when forWrite
\* is set and the root folder has no gamelist
C5_GamelistPathPriority ==
    last.op = "getGamelistPath" =>
        LET s == sys[1]
            root == RootGamelist(s) \in last.before
            home == HomeGamelist(homePath, s) \in last.before
        IN /\ root => last.path = RootGamelist(s)
           /\ (~root /\ (last.forWrite \/ home)) => last.path = HomeGamelist(homePath, s)
           /\ (~root /\ ~last.forWrite /\ ~home) => last.path = EtcGamelist(s)
           /\ last.forWrite => last.path # EtcGamelist(s)
           /\ gfs \ last.before \subseteq {HomeGamelistDir(homePath, s)}
           /\ last.before \subseteq gfs
           /\ gfs # last.before => last.forWrite /\ ~root

\* a call for writing that created the home gamelist directory
C5_Witness ==
    /\ last.op = "getGamelistPath"
    /\ last.forWrite
    /\ HomeGamelistDir(homePath, sys[1]) \in gfs \ last.before
    /\ EtcGamelist(sys[1]) \in gfs
    /\ last.path = HomeGamelist(homePath, sys[1])

====
